---- MODULE Spec2Model ----
(***************************************************************************)
(* Ring setup and ownership of vargasync: IoUring::initialize, the         *)
(* io_uring_setup wrapper, io_uring_queue_mmap, MMap::new / add_offset /   *)
(* Drop, setup_cq_ring and setup_send_ring, and the drop order of the      *)
(* IoUring handle.  Every system call the code issues is a step; `trace`   *)
(* records them in the order they are issued.                              *)
(*                                                                         *)
(* The model follows src/io_uring.rs, the version whose initialize reaches *)
(* io_uring_queue_mmap.  src/lib.rs holds an earlier io_uring_queue_mmap   *)
(* (entry sizes depending on Cqe32 / Sqe128) behind an initialize that     *)
(* ends in todo!(); it is cited where the two differ.                      *)
(***************************************************************************)
EXTENDS Integers, Sequences, FiniteSets, TLC

(* ---------------------------- model bounds ----------------------------- *)
\* number of distinct page-aligned addresses mmap may hand out
NumPages == 3
\* distance between two addresses handed out by mmap
PageSize == 4096
\* an offset a kernel may report that lies beyond every header region
FarOffset == 5000

(* ------------------------- program constants --------------------------- *)
IORING_OFF_SQ_RING == 0
IORING_OFF_CQ_RING == 134217728
IORING_OFF_SQES == 268435456
IORING_FEAT_SINGLE_MMAP == 1
IORING_FEAT_NODROP == 2

\* the sixteen IoUringSetupFlags constants (bits 0..15)
IORING_SETUP_IOPOLL == 1
IORING_SETUP_SQPOLL == 2
IORING_SETUP_SQ_AFF == 4
IORING_SETUP_CQSIZE == 8
IORING_SETUP_CLAMP == 16
IORING_SETUP_ATTACH_WQ == 32
IORING_SETUP_R_DISABLED == 64
IORING_SETUP_SUBMIT_ALL == 128
IORING_SETUP_COOP_TASKRUN == 256
IORING_SETUP_TASKRUN_FLAG == 512
IORING_SETUP_SQE128 == 1024
IORING_SETUP_CQE32 == 2048
IORING_SETUP_SINGLE_ISSUER == 4096
IORING_SETUP_DEFER_TASKRUN == 8192
IORING_SETUP_NO_MMAP == 16384
IORING_SETUP_REGISTERED_FD_ONLY == 32768

SetupFlagConstants ==
  {IORING_SETUP_IOPOLL, IORING_SETUP_SQPOLL, IORING_SETUP_SQ_AFF, IORING_SETUP_CQSIZE,
   IORING_SETUP_CLAMP, IORING_SETUP_ATTACH_WQ, IORING_SETUP_R_DISABLED,
   IORING_SETUP_SUBMIT_ALL, IORING_SETUP_COOP_TASKRUN, IORING_SETUP_TASKRUN_FLAG,
   IORING_SETUP_SQE128, IORING_SETUP_CQE32, IORING_SETUP_SINGLE_ISSUER,
   IORING_SETUP_DEFER_TASKRUN, IORING_SETUP_NO_MMAP, IORING_SETUP_REGISTERED_FD_ONLY}

\* size_of::<u32>(), size_of::<io_uring_cqe>(), size_of::<io_uring_sqe>()
SizeOfU32 == 4
SizeOfCqe == 16
SizeOfSqe == 64
\* the null address: NonNull::new(p) is None exactly when p is null
NULL == 0

(* ------------------------------ bit sets ------------------------------- *)
\* v & flag /= 0 for a single-bit flag
HasBit(v, flag) == (v \div flag) % 2 = 1

\* IoUringSetupFlags::contains for a single-bit flag
Contains(flags, flag) == HasBit(flags, flag)

RECURSIVE SumSet(_)
SumSet(S) == IF S = {} THEN 0 ELSE LET x == CHOOSE y \in S : TRUE IN x + SumSet(S \ {x})

\* IoUringSetupFlags::all().bits(): the union of the defined flags
AllSetupFlags == SumSet(SetupFlagConstants)

\* a bit no IoUringSetupFlags constant defines (1 << 16)
UndefinedSetupBit == AllSetupFlags + 1

\* (mutant) from_bits_truncate: the undefined bits are dropped, never refused
FromBitsIsSome_Truncate(bits) == TRUE

\* IoUringSetupFlags::from_bits: None when a bit outside the defined set is on
\* (the defined flags are the contiguous low bits, so the rest is bits / 2^16)
FromBitsIsSome(bits) == bits \div (AllSetupFlags + 1) = 0

\* the single bits the caller's flags word is built from
FlagBits == {IORING_SETUP_CQE32, IORING_SETUP_NO_MMAP,
             IORING_SETUP_REGISTERED_FD_ONLY, UndefinedSetupBit}
FlagValues == {SumSet(S) : S \in SUBSET FlagBits} \cup {IORING_SETUP_SQE128}

\* the entry counts the caller may ask for
EntriesValues == {1, 8}

(* ------------------------------- state --------------------------------- *)
VARIABLES
  pc,              \* position in initialize / io_uring_queue_mmap / drop
  entries,         \* initialize's `entries` argument
  caller_params,   \* initialize's `params` argument (IoUringParams)
  params,          \* the io_uring_params record exchanged with the kernel
  shared,          \* ring_mask / ring_entries words the kernel wrote in the headers
  fd,              \* the ring file descriptor: "none", "open", "invalid", "closed"
  maps,            \* one MMap per magic offset
  complete_ring,   \* IoUringQueueOwnership: "none", "Owns", "Refers"
  send_queue,      \* IoUringSendQueue pointers (NoQueue before setup_send_ring)
  complete_queue,  \* IoUringCompleteQueue pointers (NoQueue before setup_cq_ring)
  result,          \* what initialize returned
  drops,           \* values still to be dropped, in drop order
  trace            \* the system calls issued so far, in order

vars == <<pc, entries, caller_params, params, shared, fd, maps, complete_ring, send_queue,
          complete_queue, result, drops, trace>>

MagicOffsets == {IORING_OFF_SQ_RING, IORING_OFF_CQ_RING, IORING_OFF_SQES}

\* the io_sqring_offsets / io_cqring_offsets fields the code reads;
\* `array` stands for sq_off.array and for cq_off.cqes
OffsetFields == {"head", "tail", "ring_mask", "ring_entries", "flags", "array"}

\* the layout a kernel reports when nothing is engineered
BaseOffsets == [head |-> 0, tail |-> 4, ring_mask |-> 8, ring_entries |-> 12,
                flags |-> 16, array |-> 24]

\* offset tables: the plain one, and each with one field moved far out
OffsetTables == {BaseOffsets} \cup
                {[BaseOffsets EXCEPT ![f] = FarOffset] : f \in OffsetFields}

ZeroOffsets == [f \in OffsetFields |-> 0]

\* the IoUringParams the caller passes (the test's all-zero record with flags)
CallerParams(flags) ==
  [flags |-> flags, sq_entries |-> 0, cq_entries |-> 0, features |-> 0,
   sq_off |-> ZeroOffsets, cq_off |-> ZeroOffsets]

NoMap == [state |-> "none", addr |-> NULL, len |-> 0, unmaps |-> 0]
NoQueue == [set |-> FALSE, head |-> NULL, tail |-> NULL, mask |-> NULL,
            entries |-> NULL, flags |-> NULL, cqes |-> NULL]
NoShared == [sq_ring_mask |-> 0, sq_ring_entries |-> 0,
             cq_ring_mask |-> 0, cq_ring_entries |-> 0]

Event(op, off, ok) == [op |-> op, off |-> off, ok |-> ok]

\* the values that own a resource: an MMap (by magic offset) and the OwnedFd
AnMMap(k) == [what |-> "MMap", off |-> k]
TheFd == [what |-> "OwnedFd", off |-> 0]

Init ==
  /\ pc = "idle"
  /\ entries = 0
  /\ caller_params = CallerParams(0)
  /\ params = CallerParams(0)
  /\ shared = NoShared
  /\ fd = "none"
  /\ maps = [k \in MagicOffsets |-> NoMap]
  /\ complete_ring = "none"
  /\ send_queue = NoQueue
  /\ complete_queue = NoQueue
  /\ result = "none"
  /\ drops = <<>>
  /\ trace = <<>>

(* --------------------------- IoUring::initialize ----------------------- *)
\* (mutant) the negation on NoMmap is lost
InvalidCombination_NoNegation(flags) ==
  /\ Contains(flags, IORING_SETUP_REGISTERED_FD_ONLY)
  /\ Contains(flags, IORING_SETUP_NO_MMAP)

\* the check of RegisteredFdOnly without NoMmap
InvalidCombination(flags) ==
  /\ Contains(flags, IORING_SETUP_REGISTERED_FD_ONLY)
  /\ ~Contains(flags, IORING_SETUP_NO_MMAP)

\* what the validation prefix of initialize returns: "" when it goes on
Validate(bits) ==
  IF ~FromBitsIsSome(bits) THEN "error"
  ELSE IF InvalidCombination(bits) THEN "InvalidArgument"
  ELSE ""

\* impl Into<io_uring_params> for &IoUringParams (with the two offset tables):
\* the kernel record is filled field by field from the caller's
IntoIoUringParams(p) ==
  [flags |-> p.flags, sq_entries |-> p.sq_entries, cq_entries |-> p.cq_entries,
   features |-> p.features,
   sq_off |-> [f \in OffsetFields |-> p.sq_off[f]],
   cq_off |-> [f \in OffsetFields |-> p.cq_off[f]]]

Initialize(e, f) ==
  /\ pc = "idle"
  /\ entries' = e
  /\ caller_params' = CallerParams(f)
  /\ params' = IntoIoUringParams(CallerParams(f))
  /\ IF Validate(f) = ""
       THEN pc' = "setup" /\ result' = result
       ELSE pc' = "Failed" /\ result' = Validate(f)
  /\ UNCHANGED <<shared, fd, maps, complete_ring, send_queue, complete_queue,
                 drops, trace>>

(* ------------------------ syscalls::io_uring_setup --------------------- *)
\* the feature words a kernel may report
FeatureValues == {0, IORING_FEAT_SINGLE_MMAP, IORING_FEAT_NODROP}

\* the submission entry counts a kernel may grant for a request of e entries:
\* the request itself, none at all, and a count that is no power of two
GrantedSqEntries(e) == {e, 0, e + 2}

\* the ring_mask / ring_entries words a kernel writes into the two headers:
\* the conforming ones (mask = entries - 1), or a mask equal to the count
MaskWords(n) == IF n > 0 THEN {n - 1, n} ELSE {n}

SharedWords(sq, cq) ==
  { [sq_ring_mask |-> m, sq_ring_entries |-> sq,
     cq_ring_mask |-> IF m = sq THEN cq ELSE cq - 1, cq_ring_entries |-> cq] :
      m \in MaskWords(sq) }

\* what a successful io_uring_setup writes back into the parameter record
KernelReplies(p, e) ==
  UNION { { [p EXCEPT !.sq_entries = sq, !.cq_entries = cq, !.features = ft,
                      !.sq_off = t[1], !.cq_off = t[2]] :
              cq \in {sq, 2 * sq}, ft \in FeatureValues,
              t \in {x \in OffsetTables \X OffsetTables :
                       x[1] = BaseOffsets \/ x[2] = BaseOffsets} } :
          sq \in GrantedSqEntries(e) }

\* the syscall succeeded: the result is a descriptor, wrapped by OwnedFd::from_raw_fd
SetupSucceeds ==
  /\ pc = "setup"
  /\ \E reply \in KernelReplies(params, entries) :
       /\ params' = reply
       /\ shared' \in SharedWords(reply.sq_entries, reply.cq_entries)
  /\ fd' = "open"
  /\ trace' = Append(trace, Event("io_uring_setup", 0, TRUE))
  /\ pc' = "map_sq"
  /\ UNCHANGED <<caller_params, entries, maps, complete_ring, send_queue, complete_queue,
                 result, drops>>

\* OwnedFd::from_raw_fd(-1) breaks the precondition of from_raw_fd: the build
\* either panics on the assertion or goes on with a descriptor holding -1
FromRawFdOfFailure == {"panic", "invalid"}

\* the syscall failed: it returns -1 and leaves the parameter record alone;
\* io_uring_setup has no check of the result
SetupFails ==
  /\ pc = "setup"
  /\ trace' = Append(trace, Event("io_uring_setup", 0, FALSE))
  /\ \E o \in FromRawFdOfFailure :
       IF o = "panic"
         THEN pc' = "Panicked" /\ result' = "panic" /\ fd' = fd
         ELSE pc' = "map_sq" /\ result' = result /\ fd' = "invalid"
  /\ UNCHANGED <<caller_params, entries, params, shared, maps, complete_ring, send_queue,
                 complete_queue, drops>>

(* --------------------------------- MMap -------------------------------- *)
Pages == {PageSize * i : i \in 1..NumPages}

\* the addresses mmap may return: pages no live mapping occupies
FreePages == Pages \ {maps[k].addr : k \in {j \in MagicOffsets : maps[j].state = "mapped"}}

\* MMap::new: the outcomes of mmap(NULL, len, .., fd, offset); NULL stands for
\* MAP_FAILED.  A descriptor that is not open (EBADF) and a zero length
\* (EINVAL) always fail; any other request may fail (ENOMEM) or succeed
MMapNew(len) ==
  IF fd /= "open" \/ len = 0 THEN {NULL} ELSE {NULL} \cup FreePages

Mapped(addr, len) == [state |-> "mapped", addr |-> addr, len |-> len, unmaps |-> 0]

\* (mutant) the offset, not the resulting address, is tested for null
AddOffset_NullOnZeroOffset(map, offset) ==
  IF offset = 0 THEN {NULL} ELSE {map.addr + offset}

\* MMap::add_offset: NonNull::new(addr + offset).  Within the mapping (or one
\* past its end) the sum is a non-null address; beyond it the pointer
\* arithmetic is undefined and the build yields the sum or a null pointer
AddOffset(map, offset) ==
  IF offset <= map.len THEN {map.addr + offset} ELSE {map.addr + offset, NULL}

(* -------------------------- io_uring_queue_mmap ------------------------ *)
SingleMmap(p) == HasBit(p.features, IORING_FEAT_SINGLE_MMAP)

\* send_ring_size and complete_ring_size before the single-mapping collapse;
\* the setup flags take no part (lib.rs:242-245 doubled the entry size under
\* Cqe32, io_uring.rs:351-352 does not)
SendRingBytes(p) == p.sq_off.array + p.sq_entries * SizeOfU32
CompleteRingBytes(p) == p.cq_off.array + p.cq_entries * SizeOfCqe

\* send_ring_size as passed to MMap::new
SendRingSize(p) ==
  IF SingleMmap(p) /\ CompleteRingBytes(p) > SendRingBytes(p)
    THEN CompleteRingBytes(p) ELSE SendRingBytes(p)

\* complete_ring_size as passed to MMap::new
CompleteRingSize(p) ==
  IF SingleMmap(p) THEN SendRingSize(p) ELSE CompleteRingBytes(p)

\* the length of the submission entry array mapping
SqesSize(p) == p.sq_entries * SizeOfSqe

\* the ? operator on a failed MMap::new or add_offset: the error is kept and
\* the live values are dropped in the order given
Bail(err, order) ==
  /\ result' = err
  /\ drops' = order
  /\ pc' = "unwind"

\* the drop of an IoUringQueueOwnership: Owns unmaps, Refers does nothing
DropOwnership(o) == IF o = "Owns" THEN <<AnMMap(IORING_OFF_CQ_RING)>> ELSE <<>>

\* what goes out of scope, in drop order, when a step of io_uring_queue_mmap
\* returns early: locals in reverse order of declaration, then the
\* file_descriptor parameter
UnwindMapSendRing == <<TheFd>>
\* (mutant) the descriptor is dropped before the local that maps through it
UnwindMapCompleteRing_FdFirst == <<TheFd, AnMMap(IORING_OFF_SQ_RING)>>

UnwindMapCompleteRing == <<AnMMap(IORING_OFF_SQ_RING), TheFd>>
\* (mutant) the locals are dropped in declaration order
UnwindMapSqes_DeclarationOrder(o) ==
  <<AnMMap(IORING_OFF_SQ_RING)>> \o DropOwnership(o) \o <<TheFd>>

UnwindMapSqes(o) == DropOwnership(o) \o <<AnMMap(IORING_OFF_SQ_RING), TheFd>>
\* setup_cq_ring drops its `map` argument first, then the caller unwinds
UnwindSetupCqRing(o) ==
  DropOwnership(o) \o <<AnMMap(IORING_OFF_SQES), AnMMap(IORING_OFF_SQ_RING), TheFd>>
\* setup_send_ring drops its arguments `sqes` and `map`, then the caller
\* drops complete_queue and the descriptor
UnwindSetupSendRing(o) ==
  <<AnMMap(IORING_OFF_SQES), AnMMap(IORING_OFF_SQ_RING)>> \o DropOwnership(o) \o <<TheFd>>

\* let send_ring = MMap::new(&file_descriptor, IORING_OFF_SQ_RING, send_ring_size)?
MapSendRing ==
  /\ pc = "map_sq"
  /\ \E a \in MMapNew(SendRingSize(params)) :
       /\ trace' = Append(trace, Event("mmap", IORING_OFF_SQ_RING, a /= NULL))
       /\ IF a = NULL
            THEN Bail("mmap_error", UnwindMapSendRing) /\ maps' = maps
            ELSE /\ maps' = [maps EXCEPT ![IORING_OFF_SQ_RING] =
                                             Mapped(a, SendRingSize(params))]
                 /\ pc' = "map_cq"
                 /\ UNCHANGED <<result, drops>>
  /\ UNCHANGED <<caller_params, entries, params, shared, fd, complete_ring, send_queue, complete_queue>>

\* complete_ring = IoUringQueueOwnership::Refers(&send_ring)
ReferSendRing ==
  /\ pc = "map_cq"
  /\ SingleMmap(params)
  /\ complete_ring' = "Refers"
  /\ pc' = "map_sqes"
  /\ UNCHANGED <<caller_params, entries, params, shared, fd, maps, send_queue, complete_queue,
                 result, drops, trace>>

\* complete_ring = IoUringQueueOwnership::Owns(MMap::new(.., IORING_OFF_CQ_RING, ..)?)
MapCompleteRing ==
  /\ pc = "map_cq"
  /\ ~SingleMmap(params)
  /\ \E a \in MMapNew(CompleteRingSize(params)) :
       /\ trace' = Append(trace, Event("mmap", IORING_OFF_CQ_RING, a /= NULL))
       /\ IF a = NULL
            THEN /\ Bail("mmap_error", UnwindMapCompleteRing)
                 /\ UNCHANGED <<maps, complete_ring>>
            ELSE /\ maps' = [maps EXCEPT ![IORING_OFF_CQ_RING] =
                                             Mapped(a, CompleteRingSize(params))]
                 /\ complete_ring' = "Owns"
                 /\ pc' = "map_sqes"
                 /\ UNCHANGED <<result, drops>>
  /\ UNCHANGED <<caller_params, entries, params, shared, fd, send_queue, complete_queue>>

\* let send_queue_qes = MMap::new(&file_descriptor, IORING_OFF_SQES, size)?
MapSqes ==
  /\ pc = "map_sqes"
  /\ \E a \in MMapNew(SqesSize(params)) :
       /\ trace' = Append(trace, Event("mmap", IORING_OFF_SQES, a /= NULL))
       /\ IF a = NULL
            THEN /\ Bail("mmap_error", UnwindMapSqes(complete_ring))
                 /\ maps' = maps
            ELSE /\ maps' = [maps EXCEPT ![IORING_OFF_SQES] =
                                             Mapped(a, SqesSize(params))]
                 /\ pc' = "setup_cq"
                 /\ UNCHANGED <<result, drops>>
  /\ UNCHANGED <<caller_params, entries, params, shared, fd, complete_ring, send_queue, complete_queue>>

(* ---------------------- setup_cq_ring / setup_send_ring ---------------- *)
\* (mutant) the completion pointers are always resolved against a mapping of
\* their own
CompleteRingMap_AlwaysOwn(o) == IORING_OFF_CQ_RING

\* the mapping the completion pointers are resolved against
CompleteRingMap(o) == IF o = "Owns" THEN IORING_OFF_CQ_RING ELSE IORING_OFF_SQ_RING

\* the pointer tuples add_offset can yield for an offset table
Resolutions(map, off) ==
  { [set |-> TRUE, head |-> h, tail |-> t, mask |-> m, entries |-> e,
     flags |-> f, cqes |-> c] :
      h \in AddOffset(map, off.head), t \in AddOffset(map, off.tail),
      m \in AddOffset(map, off.ring_mask), e \in AddOffset(map, off.ring_entries),
      f \in AddOffset(map, off.flags), c \in AddOffset(map, off.array) }

\* ok_or(..)? on each pointer: one None fails the whole resolution
AnyNone(q, fields) == \E x \in fields : q[x] = NULL

CqFields == {"head", "tail", "mask", "entries", "flags", "cqes"}
SqFields == {"head", "tail", "mask", "entries", "flags"}

\* let complete_queue = setup_cq_ring(complete_ring, io_uring_params)?
\* on failure setup_cq_ring drops its `map` argument, then the caller drops
\* send_queue_qes, send_ring and the descriptor
SetupCqRing ==
  /\ pc = "setup_cq"
  /\ \E q \in Resolutions(maps[CompleteRingMap(complete_ring)], params.cq_off) :
       IF AnyNone(q, CqFields)
         THEN /\ Bail("offset_error", UnwindSetupCqRing(complete_ring))
              /\ complete_queue' = complete_queue
         ELSE /\ complete_queue' = q
              /\ pc' = "setup_send"
              /\ UNCHANGED <<result, drops>>
  /\ UNCHANGED <<caller_params, entries, params, shared, fd, maps, complete_ring, send_queue, trace>>

\* let send_queue = setup_send_ring(send_ring, io_uring_params, send_queue_qes)?
\* on failure setup_send_ring drops its arguments `sqes` and `map`, then the
\* caller drops complete_queue and the descriptor; on success the handle is built
SetupSendRing ==
  /\ pc = "setup_send"
  /\ \E q \in Resolutions(maps[IORING_OFF_SQ_RING], params.sq_off) :
       IF AnyNone(q, SqFields)
         THEN /\ Bail("offset_error", UnwindSetupSendRing(complete_ring))
              /\ send_queue' = send_queue
         ELSE /\ send_queue' = [q EXCEPT !.cqes = NULL]
              /\ pc' = "Ready"
              /\ result' = "Ok"
              /\ drops' = drops
  /\ UNCHANGED <<caller_params, entries, params, shared, fd, maps, complete_ring, complete_queue, trace>>

(* ------------------------------- dropping ------------------------------ *)
\* (mutant) the descriptor is declared, and so dropped, before the queues
HandleDropOrder_FdFirst(o) ==
  <<TheFd, AnMMap(IORING_OFF_SQ_RING), AnMMap(IORING_OFF_SQES)>> \o DropOwnership(o)

\* (mutant) the completion ring's mapping is forgotten
HandleDropOrder_Leak(o) ==
  <<AnMMap(IORING_OFF_SQ_RING), AnMMap(IORING_OFF_SQES), TheFd>>

\* the fields of IoUring in declaration order: send_queue (ring, sqes),
\* complete_queue (ring), flags, ring_file_descriptor
HandleDropOrder(o) ==
  <<AnMMap(IORING_OFF_SQ_RING), AnMMap(IORING_OFF_SQES)>> \o DropOwnership(o) \o <<TheFd>>

\* the caller lets go of the handle initialize returned
DropHandle ==
  /\ pc = "Ready"
  /\ drops' = HandleDropOrder(complete_ring)
  /\ pc' = "teardown"
  /\ UNCHANGED <<caller_params, entries, params, shared, fd, maps, complete_ring, send_queue,
                 complete_queue, result, trace>>

\* where control is once the last value has been dropped
AfterDrops(rest) ==
  IF rest /= <<>> THEN pc ELSE IF pc = "unwind" THEN "Failed" ELSE "Released"

\* impl Drop for MMap: munmap succeeded
DropMMap ==
  /\ pc \in {"unwind", "teardown"}
  /\ drops /= <<>> /\ Head(drops).what = "MMap"
  /\ LET k == Head(drops).off IN
       /\ maps' = [maps EXCEPT ![k].state = "unmapped", ![k].unmaps = @ + 1]
       /\ trace' = Append(trace, Event("munmap", k, TRUE))
  /\ drops' = Tail(drops)
  /\ pc' = AfterDrops(Tail(drops))
  /\ UNCHANGED <<caller_params, entries, params, shared, fd, complete_ring, send_queue,
                 complete_queue, result>>

\* (mutant) a failed munmap is logged and the drop goes on
DropMMapFails_GoesOn ==
  /\ pc \in {"unwind", "teardown"}
  /\ drops /= <<>> /\ Head(drops).what = "MMap"
  /\ trace' = Append(trace, Event("munmap", Head(drops).off, FALSE))
  /\ drops' = Tail(drops)
  /\ pc' = AfterDrops(Tail(drops))
  /\ UNCHANGED <<caller_params, entries, params, shared, fd, maps, complete_ring,
                 send_queue, complete_queue, result>>

\* impl Drop for MMap: munmap returned UNMAP_FAILED, the process exits
DropMMapFails ==
  /\ pc \in {"unwind", "teardown"}
  /\ drops /= <<>> /\ Head(drops).what = "MMap"
  /\ trace' = Append(trace, Event("munmap", Head(drops).off, FALSE))
  /\ pc' = "Exited"
  /\ UNCHANGED <<caller_params, entries, params, shared, fd, maps, complete_ring, send_queue,
                 complete_queue, result, drops>>

\* the drop of the OwnedFd: close(fd)
DropOwnedFd ==
  /\ pc \in {"unwind", "teardown"}
  /\ drops /= <<>> /\ Head(drops) = TheFd
  /\ fd' = IF fd = "open" THEN "closed" ELSE fd
  /\ trace' = Append(trace, Event("close", 0, fd = "open"))
  /\ drops' = Tail(drops)
  /\ pc' = AfterDrops(Tail(drops))
  /\ UNCHANGED <<caller_params, entries, params, shared, maps, complete_ring, send_queue,
                 complete_queue, result>>

Next ==
  \/ \E e \in EntriesValues, f \in FlagValues : Initialize(e, f)
  \/ SetupSucceeds
  \/ SetupFails
  \/ MapSendRing
  \/ ReferSendRing
  \/ MapCompleteRing
  \/ MapSqes
  \/ SetupCqRing
  \/ SetupSendRing
  \/ DropHandle
  \/ DropMMap
  \/ DropMMapFails
  \/ DropOwnedFd

Spec == Init /\ [][Next]_vars

(* ------------------------- reading the trace --------------------------- *)
Reverse(s) == [i \in 1..Len(s) |-> s[Len(s) + 1 - i]]
IsPrefix(a, b) == Len(a) <= Len(b) /\ SubSeq(b, 1, Len(a)) = a
Offs(s) == [i \in DOMAIN s |-> s[i].off]
Ops(s) == [i \in DOMAIN s |-> <<s[i].op, s[i].off>>]

\* the mmap requests issued so far, and those that succeeded
MmapRequests == SelectSeq(trace, LAMBDA e : e.op = "mmap")
Acquired == SelectSeq(trace, LAMBDA e : e.op = "mmap" /\ e.ok)
\* the munmap calls that succeeded, and every release call issued
Released == SelectSeq(trace, LAMBDA e : e.op = "munmap" /\ e.ok)
ReleaseCalls == SelectSeq(trace, LAMBDA e : e.op \in {"munmap", "close"})
SyscallCount == Len(trace)
Times(s, off) == Cardinality({i \in DOMAIN s : s[i].off = off})
StillMapped == {k \in MagicOffsets : maps[k].state = "mapped"}
HeaderOffsets == {IORING_OFF_SQ_RING, IORING_OFF_CQ_RING}

(* ------------------------------- C1 ------------------------------------ *)
\* C1: a flags value of the setup-flag set that contains RegisteredFdOnly and
\* not NoMmap makes initialize return InvalidArgument with no system call
\* issued: no setup call, no descriptor, no mapping request.
C1_RegisteredFdOnlyRejected ==
  (pc /= "idle" /\ FromBitsIsSome(params.flags)
     /\ Contains(params.flags, IORING_SETUP_REGISTERED_FD_ONLY)
     /\ ~Contains(params.flags, IORING_SETUP_NO_MMAP))
  => /\ pc = "Failed"
     /\ result = "InvalidArgument"
     /\ SyscallCount = 0
     /\ fd = "none"
     /\ StillMapped = {}

C1_Witness ==
  /\ pc = "Failed" /\ result = "InvalidArgument" /\ entries = 8
  /\ params.flags = IORING_SETUP_REGISTERED_FD_ONLY + IORING_SETUP_CQE32

(* ------------------------------- C2 ------------------------------------ *)
PointsInto(q, fields, base, off) ==
  \A x \in fields :
    q[x] = base + off[IF x = "mask" THEN "ring_mask"
                      ELSE IF x = "entries" THEN "ring_entries"
                      ELSE IF x = "cqes" THEN "array" ELSE x]

\* C2: with the single-mapping feature reported, no mapping is ever requested
\* at IORING_OFF_CQ_RING, the submission ring mapping is the only header
\* mapping, the completion descriptor refers to it without owning it, and
\* every completion pointer is the submission mapping's base plus its offset.
C2_SingleMapping ==
  (SingleMmap(params) /\ fd /= "none")
  => /\ Times(MmapRequests, IORING_OFF_CQ_RING) = 0
     /\ maps[IORING_OFF_CQ_RING].state = "none"
     /\ Times(MmapRequests, IORING_OFF_SQ_RING) <= 1
     /\ pc \in {"map_sqes", "setup_cq", "setup_send", "Ready"}
          => /\ complete_ring = "Refers"
             /\ StillMapped \cap HeaderOffsets = {IORING_OFF_SQ_RING}
             /\ Times(Acquired, IORING_OFF_SQ_RING) = 1
     /\ complete_queue.set
          => PointsInto(complete_queue, CqFields, maps[IORING_OFF_SQ_RING].addr,
                        params.cq_off)
     /\ send_queue.set
          => PointsInto(send_queue, SqFields, maps[IORING_OFF_SQ_RING].addr,
                        params.sq_off)

C2_Witness ==
  /\ pc = "Ready" /\ SingleMmap(params)
  /\ complete_queue.set /\ complete_queue.cqes = maps[IORING_OFF_SQ_RING].addr + params.cq_off.array

(* ------------------------------- C3 ------------------------------------ *)
\* C3: without the single-mapping feature a successful initialization has
\* made exactly three mappings (two headers, one entry array), and once the
\* handle has been released each was unmapped exactly once: none is still
\* mapped and none was unmapped twice.
C3_ThreeMappingsReleasedOnce ==
  (~SingleMmap(params) /\ result = "Ok")
  => /\ Len(Acquired) = 3
     /\ \A k \in MagicOffsets : Times(Acquired, k) = 1
     /\ complete_ring = "Owns"
     /\ pc = "Ready" => StillMapped = MagicOffsets
     /\ \A k \in MagicOffsets : maps[k].unmaps <= 1 /\ Times(Released, k) <= 1
     /\ pc = "Released"
          => /\ StillMapped = {}
             /\ \A k \in MagicOffsets :
                  maps[k].state = "unmapped" /\ maps[k].unmaps = 1
                    /\ Times(Released, k) = 1

C3_Witness ==
  /\ pc = "Released" /\ ~SingleMmap(params) /\ result = "Ok"
  /\ Len(Released) = 3

(* ------------------------------- C4 ------------------------------------ *)
\* C4: when a mapping request of initialize fails, the mappings acquired
\* before it are unmapped in the reverse of the order of acquisition, the
\* caller gets the error and no handle, and no mapping is left mapped once
\* the error has been returned.
C4_MappingFailureRollsBack ==
  result = "mmap_error"
  => /\ IsPrefix(Offs(Released), Reverse(Offs(Acquired)))
     /\ ~send_queue.set /\ ~complete_queue.set
     /\ pc \in {"unwind", "Failed", "Exited"}
     /\ pc = "Failed"
          => /\ Offs(Released) = Reverse(Offs(Acquired))
             /\ StillMapped = {}

C4_Witness ==
  /\ pc = "Failed" /\ result = "mmap_error"
  /\ Offs(Acquired) = <<IORING_OFF_SQ_RING, IORING_OFF_CQ_RING>>
  /\ Offs(Released) = <<IORING_OFF_CQ_RING, IORING_OFF_SQ_RING>>

(* ------------------------------- C5 ------------------------------------ *)
Position(s, x) == CHOOSE i \in DOMAIN s : s[i] = x
Has(s, x) == \E i \in DOMAIN s : s[i] = x
UnmapOf(k) == <<"munmap", k>>
CloseOfFd == <<"close", 0>>

\* the release calls a destroyed handle issues, by the order the fields of
\* IoUring and IoUringSendQueue are declared in
TeardownCalls(o) ==
  <<UnmapOf(IORING_OFF_SQ_RING), UnmapOf(IORING_OFF_SQES)>> \o
  (IF o = "Owns" THEN <<UnmapOf(IORING_OFF_CQ_RING)>> ELSE <<>>) \o <<CloseOfFd>>

\* C5 as stated: destroying a ready handle unmaps the entry array first, then
\* the header mappings, and closes the descriptor last.
C5_EntryArrayUnmappedFirst ==
  (result = "Ok" /\ pc = "Released")
  => LET calls == Ops(ReleaseCalls) IN
       /\ \A k \in HeaderOffsets :
            Has(calls, UnmapOf(k))
              => Position(calls, UnmapOf(IORING_OFF_SQES)) < Position(calls, UnmapOf(k))
       /\ calls[Len(calls)] = CloseOfFd

\* C5 as amended: destroying a ready handle unmaps the submission header
\* mapping first, then the submission entry array, then the completion header
\* mapping when the completion ring owns one, and closes the ring file
\* descriptor only after all of them.
C5_TeardownOrder ==
  (result = "Ok" /\ pc \in {"teardown", "Released", "Exited"})
  => /\ IsPrefix(Ops(ReleaseCalls), TeardownCalls(complete_ring))
     /\ pc = "Released" => Ops(ReleaseCalls) = TeardownCalls(complete_ring)
     /\ fd = "closed" => StillMapped = {}

C5_Witness ==
  /\ pc = "Released" /\ result = "Ok" /\ complete_ring = "Owns"
  /\ fd = "closed" /\ Len(ReleaseCalls) = 4

(* ------------------------------- C6 ------------------------------------ *)
\* the size of the field an offset addresses: the five counters are u32
\* words, cqes addresses completion entries
FieldSize(x) == IF x = "cqes" THEN SizeOfCqe ELSE SizeOfU32

Within(q, fields, map) ==
  \A x \in fields : map.addr <= q[x] /\ q[x] + FieldSize(x) <= map.addr + map.len

\* C6: every pointer stored in a ring descriptor lies, with the field it
\* addresses, inside the mapped region it was resolved against; an offset
\* that reaches past the mapped length fails the initialization.
C6_PointersWithinMapping ==
  /\ complete_queue.set
       => Within(complete_queue, CqFields, maps[CompleteRingMap(complete_ring)])
  /\ send_queue.set
       => Within(send_queue, SqFields, maps[IORING_OFF_SQ_RING])

(* ------------------------------- C7 ------------------------------------ *)
SetupFailed == Has(trace, Event("io_uring_setup", 0, FALSE))

\* C7: once the setup syscall has failed, initialize has returned a syscall
\* error: the failed result is not wrapped as a descriptor, no mapping is
\* requested and no handle is returned.
C7_SetupFailureStops ==
  SetupFailed
  => /\ pc = "Failed" /\ result = "SyscallError"
     /\ fd = "none"
     /\ MmapRequests = <<>>

(* ------------------------------- C8 ------------------------------------ *)
RECURSIVE IsPowerOfTwo(_)
IsPowerOfTwo(n) == n = 1 \/ (n > 1 /\ n % 2 = 0 /\ IsPowerOfTwo(n \div 2))

\* C8: whenever initialize has returned a handle, ring_mask + 1 = ring_entries
\* on both rings and ring_entries is a power of two.
C8_MaskPlusOneIsEntries ==
  result = "Ok"
  => /\ shared.sq_ring_mask + 1 = shared.sq_ring_entries
     /\ shared.cq_ring_mask + 1 = shared.cq_ring_entries
     /\ IsPowerOfTwo(shared.sq_ring_entries)
     /\ IsPowerOfTwo(shared.cq_ring_entries)

(* ------------------------------- C9 ------------------------------------ *)
\* the completion entry size of the claim: doubled under Cqe32
CqeSizeFor(flags) ==
  IF Contains(flags, IORING_SETUP_CQE32) THEN SizeOfCqe * 2 ELSE SizeOfCqe

\* C9: the completion region is requested with the length
\* cqes_offset + cq_entries * completion_entry_size, the entry size doubled
\* when Cqe32 is set.
C9_CompleteRingSizeDoublesUnderCqe32 ==
  \A i \in DOMAIN trace :
    (trace[i].op = "mmap" /\ trace[i].off = IORING_OFF_CQ_RING /\ trace[i].ok)
    => maps[IORING_OFF_CQ_RING].len =
         params.cq_off.array + params.cq_entries * CqeSizeFor(params.flags)

(* ------------------------------- C10 ----------------------------------- *)
WithCqe32(p) ==
  [p EXCEPT !.flags = IF Contains(@, IORING_SETUP_CQE32) THEN @
                      ELSE @ + IORING_SETUP_CQE32]
WithoutCqe32(p) ==
  [p EXCEPT !.flags = IF Contains(@, IORING_SETUP_CQE32) THEN @ - IORING_SETUP_CQE32
                      ELSE @]

\* C10: for the offsets and the completion entry count the kernel returned
\* (count > 0, no single mapping), the completion region size computed with
\* Cqe32 set is strictly greater than the one computed with Cqe32 clear.
C10_Cqe32StrictlyIncreasesSize ==
  (pc = "map_cq" /\ ~SingleMmap(params) /\ params.cq_entries > 0)
  => CompleteRingSize(WithCqe32(params)) > CompleteRingSize(WithoutCqe32(params))

(* ------------------------------- C11 ----------------------------------- *)
SetupSucceeded == Has(trace, Event("io_uring_setup", 0, TRUE))

\* every mapping request of io_uring_queue_mmap was made and succeeded
AllMappingsSucceeded ==
  Offs(Acquired) = IF SingleMmap(params)
                     THEN <<IORING_OFF_SQ_RING, IORING_OFF_SQES>>
                     ELSE <<IORING_OFF_SQ_RING, IORING_OFF_CQ_RING, IORING_OFF_SQES>>

\* every offset the kernel reported lies within the region it is resolved in
OffsetsWithinRegions ==
  /\ \A f \in OffsetFields \ {"array"} :
       params.sq_off[f] <= maps[IORING_OFF_SQ_RING].len
  /\ \A f \in OffsetFields :
       params.cq_off[f] <= maps[CompleteRingMap(complete_ring)].len

Max(a, b) == IF a > b THEN a ELSE b

\* submission_bytes and completion_bytes of the claim
SubmissionBytes == params.sq_off.array + params.sq_entries * SizeOfU32
CompletionBytes == params.cq_off.array + params.cq_entries * CqeSizeFor(params.flags)

\* C12: with the single-mapping feature the header region is requested with
\* the larger of submission_bytes and completion_bytes; without it each
\* region is requested with its own size.
C12_SingleMappingUsesLargerSize ==
  /\ maps[IORING_OFF_SQ_RING].state /= "none"
       => maps[IORING_OFF_SQ_RING].len =
            IF SingleMmap(params) THEN Max(SubmissionBytes, CompletionBytes)
            ELSE SubmissionBytes
  /\ maps[IORING_OFF_CQ_RING].state /= "none"
       => maps[IORING_OFF_CQ_RING].len = CompletionBytes

(* ------------------------------- C13 ----------------------------------- *)
\* the submission entry size of the claim: 64 more bytes under Sqe128
SqeSizeFor(flags) ==
  IF Contains(flags, IORING_SETUP_SQE128) THEN SizeOfSqe + 64 ELSE SizeOfSqe

\* C13: the submission entry array is a mapping of its own at
\* IORING_OFF_SQES, with or without the single-mapping feature, of length
\* sq_entries * S, S being 64 bytes plus 64 under Sqe128.
C13_SqesOwnMappingOfClaimedLength ==
  /\ pc \in {"setup_cq", "setup_send", "Ready"}
       => /\ maps[IORING_OFF_SQES].state = "mapped"
          /\ maps[IORING_OFF_SQES].addr /= maps[IORING_OFF_SQ_RING].addr
  /\ maps[IORING_OFF_SQES].state /= "none"
       => maps[IORING_OFF_SQES].len = params.sq_entries * SqeSizeFor(params.flags)

(* ------------------------------- C14 ----------------------------------- *)
\* C14: in every state of initialization, of a failed initialization being
\* unwound and of teardown, a mapping that is still mapped has the ring file
\* descriptor open; once the descriptor is closed no mapping is left.
C14_FdOutlivesMappings ==
  /\ StillMapped /= {} => fd = "open"
  /\ fd = "closed" => StillMapped = {} /\ Len(Released) = Len(Acquired)
  /\ \A i \in DOMAIN trace :
       trace[i].op = "close" => \A j \in DOMAIN trace : trace[j].op = "munmap" => j < i

C14_Witness ==
  /\ pc = "unwind" /\ fd = "open"
  /\ Offs(Released) = <<IORING_OFF_CQ_RING>>
  /\ StillMapped = {IORING_OFF_SQ_RING}

(* ------------------------------- C15 ----------------------------------- *)
\* the system calls of one initialize, in the order the claim gives them
ClaimedCalls ==
  <<<<"io_uring_setup", 0>>, <<"mmap", IORING_OFF_SQ_RING>>>> \o
  (IF SingleMmap(params) THEN <<>> ELSE <<<<"mmap", IORING_OFF_CQ_RING>>>>) \o
  <<<<"mmap", IORING_OFF_SQES>>>>

InitCalls == SelectSeq(trace, LAMBDA e : e.op \in {"io_uring_setup", "mmap"})

\* C15: the setup syscall and the mapping requests are issued in the order
\* setup, submission header, completion header (without single mapping),
\* entry array, each at most once; nothing is issued before validation has
\* passed, offsets are resolved only once every mapping exists, and after
\* the first failing step no further step is attempted.
C15_LinearNoRetries ==
  /\ IsPrefix(Ops(InitCalls), ClaimedCalls)
  /\ trace /= <<>> => Validate(caller_params.flags) = ""
  /\ (send_queue.set \/ complete_queue.set \/ pc \in {"setup_cq", "setup_send"})
       => Ops(InitCalls) = ClaimedCalls /\ \A i \in DOMAIN InitCalls : InitCalls[i].ok
  /\ \A i \in DOMAIN InitCalls : ~InitCalls[i].ok => i = Len(InitCalls)

(* ------------------------------- C16 ----------------------------------- *)
MunmapCalls == SelectSeq(trace, LAMBDA e : e.op = "munmap")
MMapsToDrop == Len(SelectSeq(drops, LAMBDA d : d.what = "MMap"))

\* C16: every drop of an owned mapping issues its munmap, and a munmap that
\* fails ends the process there: it is the last call ever issued, the values
\* still to be dropped stay undropped, the ring file descriptor is not
\* closed and initialize returns nothing afterwards.
C16_UnmapFailureExits ==
  /\ pc \in {"unwind", "teardown", "Failed", "Released"}
       => Len(MunmapCalls) + MMapsToDrop = Len(Acquired)
  /\ \A i \in DOMAIN trace :
       (trace[i].op = "munmap" /\ ~trace[i].ok)
       => /\ i = Len(trace)
          /\ pc = "Exited"
          /\ fd = "open"
          /\ drops /= <<>> /\ Head(drops) = AnMMap(trace[i].off)
          /\ maps[trace[i].off].state = "mapped"
          /\ Len(MunmapCalls) + MMapsToDrop - 1 = Len(Acquired)
  /\ pc = "Exited" => trace /= <<>> /\ ~trace[Len(trace)].ok

C16_Witness ==
  /\ pc = "Exited" /\ result = "Ok"
  /\ Ops(ReleaseCalls) = <<UnmapOf(IORING_OFF_SQ_RING), UnmapOf(IORING_OFF_SQES)>>
  /\ ~trace[Len(trace)].ok
  /\ Len(drops) = 3

(* ------------------------------- C17 ----------------------------------- *)
\* every value of the caller's flags word up to one bit past the defined set
AllFlagWords == 0..(2 * UndefinedSetupBit - 1)

\* the bit positions of a flags word in AllFlagWords
BitsOfWord == SetupFlagConstants \cup {UndefinedSetupBit}

\* the word is a combination of defined setup flags
OnlyDefinedFlags(bits) == \A b \in BitsOfWord : HasBit(bits, b) => b \in SetupFlagConstants

\* the one combination initialize refuses
RegisteredFdOnlyWithoutNoMmap(bits) ==
  HasBit(bits, IORING_SETUP_REGISTERED_FD_ONLY) /\ ~HasBit(bits, IORING_SETUP_NO_MMAP)

\* initialize over every flags word, up to the return of the setup syscall
NextFlags ==
  \/ pc = "idle" /\ \E e \in EntriesValues, f \in AllFlagWords : Initialize(e, f)
  \/ SetupFails

SpecFlags == Init /\ [][NextFlags]_vars

\* C17: a combination of defined setup flags other than RegisteredFdOnly
\* without NoMmap is not rejected by initialize and reaches the setup syscall
\* with the caller's flags value; a flags value with a bit outside the defined
\* set is rejected with an error and no syscall is ever issued for it.
C17_OtherFlagsPassThrough ==
  pc /= "idle" =>
    /\ (OnlyDefinedFlags(caller_params.flags)
          /\ ~RegisteredFdOnlyWithoutNoMmap(caller_params.flags))
        => /\ result \notin {"error", "InvalidArgument"}
           /\ pc = "Failed" => trace /= <<>>
           /\ pc = "setup" => trace = <<>> /\ params.flags = caller_params.flags
           /\ Has(trace, Event("io_uring_setup", 0, FALSE)) => params.flags = caller_params.flags
    /\ ~OnlyDefinedFlags(caller_params.flags)
        => pc = "Failed" /\ result = "error" /\ trace = <<>>

C17_Witness ==
  /\ pc = "map_sq"
  /\ caller_params.flags = AllSetupFlags - IORING_SETUP_REGISTERED_FD_ONLY
  /\ params.flags = caller_params.flags
  /\ trace = <<Event("io_uring_setup", 0, FALSE)>>

====
